---- MODULE Spec2Model ----
(***************************************************************************)
(* The storefront's view components over browser local storage:            *)
(*   Navbar      (src/src/components/Navbar.tsx)   the cart state, the     *)
(*               global window.addToCart and the `storage` listener;       *)
(*   AllOrders   (src/src/pages/AllOrders.tsx)     the administrator's     *)
(*               order list, its search and its status updates;            *)
(*   UserProfile (src/unnamed/part_001)            a customer's orders and *)
(*               custom requests.                                           *)
(* One step of the model is one task of the browser's event loop: the      *)
(* handler (or the effects of a mount or of a context change) runs, React  *)
(* applies the state updates it queued, in order, and renders again.       *)
(***************************************************************************)
EXTENDS Integers, Sequences, FiniteSets, TLC

VARIABLES
    storage,          \* local storage of the origin: key -> stored text
    storageEvents,    \* `storage` events in flight to this document
    cartWriter,       \* history: who wrote the key cartItems last
    navMounted,       \* Navbar n is mounted
    navCart,          \* Navbar n's cartItems state
    navBadge,         \* the cartItemsCount Navbar n passed down at its last render
    addToCartOwner,   \* the Navbar whose closure window.addToCart is; 0: undefined
    isAdmin,          \* AuthContext
    isAuthenticated,  \* AuthContext
    user,             \* AuthContext: a user record, or NoUser
    aoMounted,        \* AllOrders instance i (a tab) is mounted
    aoOrders,         \* its orders state
    aoFiltered,       \* its filteredOrders state
    aoSearch,         \* its searchTerm state
    aoError,          \* its load effect ended in an uncaught error
    aoEver,           \* history: the instances that have mounted so far
    aoApplied,        \* history: order id -> the status the latest update gave it
    upMounted,        \* UserProfile is mounted
    upOrders,         \* its orders state
    upRequests,       \* its customRequests state
    upRendered,       \* what its last render returned: "null" or "page"
    upError,          \* the key on which its load effect threw, or "none"
    navCalls,         \* the navigate() calls of the last step, in order
    last              \* the handler that ran in the last step, with its arguments

vars == <<storage, storageEvents, cartWriter, navMounted, navCart, navBadge,
          addToCartOwner, isAdmin, isAuthenticated, user, aoMounted, aoOrders,
          aoFiltered, aoSearch, aoError, aoEver, aoApplied, upMounted, upOrders,
          upRequests, upRendered, upError, navCalls, last>>

navVars == <<navMounted, navCart, navBadge, addToCartOwner, storageEvents, cartWriter>>
authVars == <<isAdmin, isAuthenticated, user>>
aoVars == <<aoMounted, aoOrders, aoFiltered, aoSearch, aoError, aoEver, aoApplied>>
upVars == <<upMounted, upOrders, upRequests, upRendered, upError>>

----------------------------------------------------------------------------
(* Bounds of the model *)

MaxCart == 2      \* items in a cart another document writes
MaxQty == 3       \* total quantity up to which window.addToCart is called
MaxCalls == 2     \* calls of window.addToCart made back to back in one task
MaxEvents == 1    \* storage events in flight
MaxOrders == 2    \* orders in the stored list
MaxRequests == 2  \* custom requests in the stored list

NavbarIds == {1, 2}
ItemIds == {"towel", "robe"}
Tabs == {1, 2}
\* order ids and search terms are texts: sequences of characters
OrderIds == {<<"A", "b">>, <<"b">>}
SearchTerms == {<<>>, <<" ">>, <<"a">>, <<"B">>, <<" ", "a">>}
StoredStatuses == {"Processing", "Delivered"}
UserIds == {"u1", "u2"}
RequestIds == {"r1", "r2"}

----------------------------------------------------------------------------
(* Sequences *)

SeqsUpTo(S, n) == UNION {[1..k -> S] : k \in 0..n}

RECURSIVE SumQuantity(_)
SumQuantity(s) ==
    IF s = <<>> THEN 0 ELSE Head(s).quantity + SumQuantity(Tail(s))

----------------------------------------------------------------------------
(* Local storage and JSON.  A stored text is absent (getItem returns null), *)
(* the empty string, a text JSON.parse rejects, or the JSON of a value.     *)

Absent == [kind |-> "absent"]
EmptyText == [kind |-> "empty"]
Malformed == [kind |-> "malformed"]

JSONstringify(v) == [kind |-> "json", val |-> v]
ParseThrows(t) == t.kind # "json"
JSONparse(t) == t.val
Truthy(t) == t.kind \notin {"absent", "empty"}

setItem(st, key, v) == [st EXCEPT ![key] = v]

----------------------------------------------------------------------------
(* The cart *)

\* the carts found in storage at the start or written by another document
CartItems == [id : ItemIds, quantity : {1}]
Carts == SeqsUpTo(CartItems, MaxCart)
CartTexts == {Absent} \cup {JSONstringify(c) : c \in Carts}
\* the argument of window.addToCart: quantity is optional
NewItems == [id : ItemIds] \cup [id : ItemIds, quantity : {2}]

loadCartFromStorage(st) ==
    IF st.cartItems.kind = "json" THEN JSONparse(st.cartItems) ELSE <<>>

QuantityOf(item) == IF "quantity" \in DOMAIN item THEN item.quantity ELSE 1

addItemToCart(item, prevItems) ==
    IF \E k \in 1..Len(prevItems) : prevItems[k].id = item.id
    THEN [k \in 1..Len(prevItems) |->
            IF prevItems[k].id = item.id
            THEN [prevItems[k] EXCEPT !.quantity = @ + QuantityOf(item)]
            ELSE prevItems[k]]
    ELSE Append(prevItems, [id |-> item.id, quantity |-> QuantityOf(item)])

\* Navbar.tsx:35-37: each call queues the updater prev => addItemToCart(item, prev);
\* React applies the queued updaters in order, each to the result of the one before
addToCartCalls_closure(items, prevItems) ==
    IF items = <<>> THEN prevItems
    ELSE addItemToCart(items[Len(items)], prevItems)

RECURSIVE addToCartCalls(_, _)
addToCartCalls(items, prevItems) ==
    IF items = <<>> THEN prevItems
    ELSE addToCartCalls(Tail(items), addItemToCart(Head(items), prevItems))

handleStorageChange_stale(prevItems, st) == prevItems

handleStorageChange(prevItems, st) == loadCartFromStorage(st)

removeFromCart_first(prevItems, id) ==
    IF \E k \in 1..Len(prevItems) : prevItems[k].id = id
    THEN LET k == CHOOSE j \in 1..Len(prevItems) :
                    /\ prevItems[j].id = id
                    /\ \A i \in 1..(j - 1) : prevItems[i].id # id
         IN  SubSeq(prevItems, 1, k - 1) \o SubSeq(prevItems, k + 1, Len(prevItems))
    ELSE prevItems

removeFromCart(prevItems, id) ==
    SelectSeq(prevItems, LAMBDA item : item.id # id)

cartItemsCount_length(cartItems) == Len(cartItems)

cartItemsCount(cartItems) == SumQuantity(cartItems)

----------------------------------------------------------------------------
(* Navbar *)

NavbarMount(n) ==
    /\ ~navMounted[n]
    /\ navMounted' = [navMounted EXCEPT ![n] = TRUE]
    /\ navCart' = [navCart EXCEPT ![n] = loadCartFromStorage(storage)]
    /\ navBadge' = [navBadge EXCEPT ![n] = cartItemsCount(navCart'[n])]
    /\ addToCartOwner' = n
    /\ last' = [op |-> "NavbarMount", who |-> n]
    /\ navCalls' = <<>>
    /\ UNCHANGED <<storage, storageEvents, cartWriter, authVars, aoVars, upVars>>

NavbarUnmount(n) ==
    /\ navMounted[n]
    /\ navMounted' = [navMounted EXCEPT ![n] = FALSE]
    /\ navCart' = [navCart EXCEPT ![n] = <<>>]
    /\ navBadge' = [navBadge EXCEPT ![n] = 0]
    /\ addToCartOwner' = 0
    /\ last' = [op |-> "NavbarUnmount", who |-> n]
    /\ navCalls' = <<>>
    /\ UNCHANGED <<storage, storageEvents, cartWriter, authVars, aoVars, upVars>>

\* a caller's handler calls window.addToCart for each of items, back to back;
\* addItemToCart saves the cart it returns under cartItems
AddToCart(items) ==
    /\ addToCartOwner # 0
    /\ LET n == addToCartOwner
           updatedItems == addToCartCalls(items, navCart[n])
       IN  /\ SumQuantity(updatedItems) <= MaxQty
           /\ navCart' = [navCart EXCEPT ![n] = updatedItems]
           /\ navBadge' = [navBadge EXCEPT ![n] = cartItemsCount(updatedItems)]
           /\ storage' = setItem(storage, "cartItems", JSONstringify(updatedItems))
           /\ last' = [op |-> "addToCart", who |-> n, items |-> items]
    /\ cartWriter' = "self"
    /\ navCalls' = <<>>
    /\ UNCHANGED <<navMounted, addToCartOwner, storageEvents, authVars, aoVars, upVars>>

RemoveFromCart(n, id) ==
    /\ navMounted[n]
    /\ LET updatedItems == removeFromCart(navCart[n], id)
       IN  /\ navCart' = [navCart EXCEPT ![n] = updatedItems]
           /\ navBadge' = [navBadge EXCEPT ![n] = cartItemsCount(updatedItems)]
           /\ storage' = setItem(storage, "cartItems", JSONstringify(updatedItems))
    /\ cartWriter' = "self"
    /\ last' = [op |-> "removeFromCart", who |-> n, id |-> id]
    /\ navCalls' = <<>>
    /\ UNCHANGED <<navMounted, addToCartOwner, storageEvents, authVars, aoVars, upVars>>

\* another document of the origin writes the cart: this document gets a storage event
OtherDocumentWrite(text) ==
    /\ storageEvents < MaxEvents
    /\ storage' = setItem(storage, "cartItems", text)
    /\ storageEvents' = storageEvents + 1
    /\ cartWriter' = "other"
    /\ last' = [op |-> "otherDocumentWrite"]
    /\ navCalls' = <<>>
    /\ UNCHANGED <<navMounted, navCart, navBadge, addToCartOwner, authVars, aoVars, upVars>>

\* the event reaches the listener of every mounted Navbar
StorageEvent ==
    /\ storageEvents > 0
    /\ storageEvents' = storageEvents - 1
    /\ navCart' = [n \in NavbarIds |->
                     IF navMounted[n] THEN handleStorageChange(navCart[n], storage)
                     ELSE navCart[n]]
    /\ navBadge' = [n \in NavbarIds |->
                      IF navMounted[n] THEN cartItemsCount(navCart'[n]) ELSE navBadge[n]]
    /\ last' = [op |-> "storage"]
    /\ navCalls' = <<>>
    /\ UNCHANGED <<storage, cartWriter, navMounted, addToCartOwner, authVars, aoVars, upVars>>

----------------------------------------------------------------------------
(* Texts *)

toLowerCase(s) ==
    [k \in 1..Len(s) |->
        CASE s[k] = "A" -> "a"
          [] s[k] = "B" -> "b"
          [] OTHER -> s[k]]

\* String.prototype.includes: part occurs in s as a contiguous run
includes(s, part) ==
    \E k \in 0..(Len(s) - Len(part)) :
        \A j \in 1..Len(part) : s[k + j] = part[j]

RECURSIVE trim(_)
trim(s) ==
    IF s = <<>> THEN s
    ELSE IF Head(s) = " " THEN trim(Tail(s))
    ELSE IF s[Len(s)] = " " THEN trim(SubSeq(s, 1, Len(s) - 1))
    ELSE s

----------------------------------------------------------------------------
(* AllOrders *)

\* the options of the status select, AllOrders.tsx:150-153
Statuses == {"Processing", "Shipped", "Delivered", "Cancelled"}
Orders == [id : OrderIds, status : StoredStatuses]
OrderLists == SeqsUpTo(Orders, MaxOrders)
OrderTexts == {Absent, EmptyText, Malformed} \cup {JSONstringify(l) : l \in OrderLists}

Login == "/login"

\* AllOrders.tsx:35-39
redirectIfNotAdmin_flipped(admin) == IF admin THEN <<Login>> ELSE <<>>

redirectIfNotAdmin(admin) == IF ~admin THEN <<Login>> ELSE <<>>

\* AllOrders.tsx:56-63
filterOrders_caseSensitive(orders, term) ==
    IF trim(term) = <<>> THEN orders
    ELSE SelectSeq(orders, LAMBDA order : includes(order.id, term))

filterOrders(orders, term) ==
    IF trim(term) = <<>> THEN orders
    ELSE SelectSeq(orders, LAMBDA order :
                     includes(toLowerCase(order.id), toLowerCase(term)))

\* AllOrders.tsx:68-73 and 77-82
withStatus_all(orders, orderId, newStatus) ==
    [k \in 1..Len(orders) |-> [orders[k] EXCEPT !.status = newStatus]]

withStatus(orders, orderId, newStatus) ==
    [k \in 1..Len(orders) |->
        IF orders[k].id = orderId
        THEN [orders[k] EXCEPT !.status = newStatus]
        ELSE orders[k]]

\* AllOrders.tsx:85: what updateOrderStatus writes
ordersToStore_filtered(updatedOrders, updatedFiltered) == updatedFiltered

ordersToStore(updatedOrders, updatedFiltered) == updatedOrders

\* AllOrders.tsx:42-49, the load effect of a page whose states are the initial
\* ones: the states it leaves and whether JSON.parse threw
loadOrders_guarded(savedOrders) ==
    IF Truthy(savedOrders) /\ ~ParseThrows(savedOrders)
    THEN [orders |-> JSONparse(savedOrders), filtered |-> JSONparse(savedOrders),
          error |-> FALSE]
    ELSE [orders |-> <<>>, filtered |-> <<>>, error |-> FALSE]

loadOrders(savedOrders) ==
    IF Truthy(savedOrders)
    THEN IF ParseThrows(savedOrders)
         THEN [orders |-> <<>>, filtered |-> <<>>, error |-> TRUE]
         ELSE [orders |-> JSONparse(savedOrders), filtered |-> JSONparse(savedOrders),
               error |-> FALSE]
    ELSE [orders |-> <<>>, filtered |-> <<>>, error |-> FALSE]

AllOrdersMount(i) ==
    /\ ~aoMounted[i]
    /\ ~upMounted
    /\ aoMounted' = [aoMounted EXCEPT ![i] = TRUE]
    /\ aoEver' = aoEver \cup {i}
    /\ navCalls' = redirectIfNotAdmin(isAdmin)
    /\ aoSearch' = [aoSearch EXCEPT ![i] = <<>>]
    /\ LET loaded == loadOrders(storage.orders)
       IN  /\ aoOrders' = [aoOrders EXCEPT ![i] = loaded.orders]
           /\ aoFiltered' = [aoFiltered EXCEPT ![i] = loaded.filtered]
           /\ aoError' = [aoError EXCEPT ![i] = loaded.error]
    /\ last' = [op |-> "AllOrdersMount", who |-> i]
    /\ UNCHANGED <<storage, navVars, authVars, aoApplied, upVars>>

AllOrdersUnmount(i) ==
    /\ aoMounted[i]
    /\ aoMounted' = [aoMounted EXCEPT ![i] = FALSE]
    /\ aoOrders' = [aoOrders EXCEPT ![i] = <<>>]
    /\ aoFiltered' = [aoFiltered EXCEPT ![i] = <<>>]
    /\ aoSearch' = [aoSearch EXCEPT ![i] = <<>>]
    /\ aoError' = [aoError EXCEPT ![i] = FALSE]
    /\ navCalls' = <<>>
    /\ last' = [op |-> "AllOrdersUnmount", who |-> i]
    /\ UNCHANGED <<storage, navVars, authVars, aoEver, aoApplied, upVars>>

handleSearch(i, term) ==
    /\ aoMounted[i] /\ ~aoError[i]
    /\ aoSearch' = [aoSearch EXCEPT ![i] = term]
    /\ aoFiltered' = [aoFiltered EXCEPT ![i] = filterOrders(aoOrders[i], term)]
    /\ navCalls' = <<>>
    /\ last' = [op |-> "handleSearch", who |-> i, term |-> term]
    /\ UNCHANGED <<storage, navVars, authVars, aoMounted, aoOrders, aoError, aoEver,
                   aoApplied, upVars>>

\* the select of a rendered row: orderId is the id of an order of filteredOrders
updateOrderStatus(i, orderId, newStatus) ==
    /\ aoMounted[i] /\ ~aoError[i]
    /\ \E k \in 1..Len(aoFiltered[i]) : aoFiltered[i][k].id = orderId
    /\ LET updatedOrders == withStatus(aoOrders[i], orderId, newStatus)
           updatedFiltered == withStatus(aoFiltered[i], orderId, newStatus)
       IN  /\ aoOrders' = [aoOrders EXCEPT ![i] = updatedOrders]
           /\ aoFiltered' = [aoFiltered EXCEPT ![i] = updatedFiltered]
           /\ storage' = setItem(storage, "orders",
                            JSONstringify(ordersToStore(updatedOrders, updatedFiltered)))
    /\ aoApplied' = [aoApplied EXCEPT ![orderId] = newStatus]
    /\ navCalls' = <<>>
    /\ last' = [op |-> "updateOrderStatus", who |-> i, id |-> orderId,
                status |-> newStatus]
    /\ UNCHANGED <<navVars, authVars, aoMounted, aoSearch, aoError, aoEver, upVars>>

\* the `Clear search` button, rendered when no row is and searchTerm is truthy
clearSearch(i) ==
    /\ aoMounted[i] /\ ~aoError[i]
    /\ Len(aoFiltered[i]) = 0
    /\ aoSearch[i] # <<>>
    /\ aoSearch' = [aoSearch EXCEPT ![i] = <<>>]
    /\ aoFiltered' = [aoFiltered EXCEPT ![i] = aoOrders[i]]
    /\ navCalls' = <<>>
    /\ last' = [op |-> "clearSearch", who |-> i]
    /\ UNCHANGED <<storage, navVars, authVars, aoMounted, aoOrders, aoError, aoEver,
                   aoApplied, upVars>>

\* the back button
backToDashboard(i) ==
    /\ aoMounted[i] /\ ~aoError[i]
    /\ navCalls' = <<"/admin-dashboard">>
    /\ last' = [op |-> "backToDashboard", who |-> i]
    /\ UNCHANGED <<storage, navVars, authVars, aoVars, upVars>>

----------------------------------------------------------------------------
(* UserProfile *)

NoUser == [id |-> "null"]
Users == [id : UserIds]
Requests == [id : RequestIds, userId : UserIds]
RequestLists == SeqsUpTo(Requests, MaxRequests)
RequestTexts == {Absent, EmptyText, Malformed} \cup {JSONstringify(l) : l \in RequestLists}

\* the stored orders of the specification of the pages
ProfileOrderTexts ==
    {Absent, EmptyText, Malformed}
        \cup {JSONstringify(l) : l \in SeqsUpTo([id : OrderIds, status : {"Processing"}],
                                                MaxOrders)}

\* getItem(key) || '[]'
orEmptyList_none(t) == t

orEmptyList(t) == IF Truthy(t) THEN t ELSE JSONstringify(<<>>)

\* part_001:50-54
redirectIfNotLoggedIn(authenticated) == IF ~authenticated THEN <<Login>> ELSE <<>>

\* part_001:68
userRequests_all(allRequests, u) == allRequests

userRequests(allRequests, u) ==
    SelectSeq(allRequests, LAMBDA request : request.userId = u.id)

\* part_001:73-75
renderProfile_always(authenticated) == "page"

renderProfile(authenticated) == IF ~authenticated THEN "null" ELSE "page"

\* part_001:57-71, the load effect: the states it leaves and the key whose text
\* JSON.parse threw on ("none": it did not throw)
loadProfile(st, authenticated, u, orders, requests) ==
    IF authenticated /\ u # NoUser
    THEN LET ordersText == orEmptyList(st.orders)
             requestsText == orEmptyList(st.customRequests)
         IN  IF ParseThrows(ordersText)
             THEN [orders |-> orders, requests |-> requests, error |-> "orders"]
             ELSE IF ParseThrows(requestsText)
             THEN [orders |-> JSONparse(ordersText), requests |-> requests,
                   error |-> "customRequests"]
             ELSE [orders |-> JSONparse(ordersText),
                   requests |-> userRequests(JSONparse(requestsText), u),
                   error |-> "none"]
    ELSE [orders |-> orders, requests |-> requests, error |-> "none"]

UserProfileMount ==
    /\ ~upMounted
    /\ \A i \in Tabs : ~aoMounted[i]
    /\ upMounted' = TRUE
    /\ upRendered' = renderProfile(isAuthenticated)
    /\ navCalls' = redirectIfNotLoggedIn(isAuthenticated)
    /\ LET loaded == loadProfile(storage, isAuthenticated, user, <<>>, <<>>)
       IN  /\ upOrders' = loaded.orders
           /\ upRequests' = loaded.requests
           /\ upError' = loaded.error
    /\ last' = [op |-> "UserProfileMount"]
    /\ UNCHANGED <<storage, navVars, authVars, aoVars>>

UserProfileUnmount ==
    /\ upMounted
    /\ upMounted' = FALSE
    /\ upOrders' = <<>>
    /\ upRequests' = <<>>
    /\ upRendered' = "null"
    /\ upError' = "none"
    /\ navCalls' = <<>>
    /\ last' = [op |-> "UserProfileUnmount"]
    /\ UNCHANGED <<storage, navVars, authVars, aoVars>>

----------------------------------------------------------------------------
(* AuthContext: the values the pages read with useAuth() change (a login,  *)
(* a logout); the mounted page renders again and React runs the effects    *)
(* whose dependencies changed. *)

AuthChange(admin, authenticated, u) ==
    /\ <<admin, authenticated, u>> # <<isAdmin, isAuthenticated, user>>
    /\ isAdmin' = admin
    /\ isAuthenticated' = authenticated
    /\ user' = u
    /\ navCalls' =
          (IF (\E i \in Tabs : aoMounted[i] /\ ~aoError[i]) /\ admin # isAdmin
           THEN redirectIfNotAdmin(admin) ELSE <<>>)
          \o (IF upMounted /\ upError = "none" /\ authenticated # isAuthenticated
              THEN redirectIfNotLoggedIn(authenticated) ELSE <<>>)
    /\ IF upMounted /\ upError = "none"
       THEN /\ upRendered' = renderProfile(authenticated)
            /\ IF authenticated # isAuthenticated \/ u # user
               THEN LET loaded == loadProfile(storage, authenticated, u,
                                              upOrders, upRequests)
                    IN  /\ upOrders' = loaded.orders
                        /\ upRequests' = loaded.requests
                        /\ upError' = loaded.error
               ELSE UNCHANGED <<upOrders, upRequests, upError>>
       ELSE UNCHANGED <<upOrders, upRequests, upRendered, upError>>
    /\ last' = [op |-> "authChange"]
    /\ UNCHANGED <<storage, navVars, aoVars, upMounted>>

\* the text under orders is overwritten from outside the pages (another
\* application of the origin, the developer tools) by one JSON.parse rejects
OrdersCorrupted ==
    /\ storage.orders # Malformed
    /\ storage' = setItem(storage, "orders", Malformed)
    /\ navCalls' = <<>>
    /\ last' = [op |-> "ordersCorrupted"]
    /\ UNCHANGED <<navVars, authVars, aoVars, upVars>>

----------------------------------------------------------------------------
(* Specifications *)

InitComponents ==
    /\ storageEvents = 0
    /\ cartWriter = "none"
    /\ navMounted = [n \in NavbarIds |-> FALSE]
    /\ navCart = [n \in NavbarIds |-> <<>>]
    /\ navBadge = [n \in NavbarIds |-> 0]
    /\ addToCartOwner = 0
    /\ aoMounted = [i \in Tabs |-> FALSE]
    /\ aoOrders = [i \in Tabs |-> <<>>]
    /\ aoFiltered = [i \in Tabs |-> <<>>]
    /\ aoSearch = [i \in Tabs |-> <<>>]
    /\ aoError = [i \in Tabs |-> FALSE]
    /\ aoEver = {}
    /\ aoApplied = [o \in OrderIds |-> "none"]
    /\ upMounted = FALSE
    /\ upOrders = <<>>
    /\ upRequests = <<>>
    /\ upRendered = "null"
    /\ upError = "none"
    /\ navCalls = <<>>
    /\ last = [op |-> "init"]

\* the Navbar and the cart
InitCart ==
    /\ InitComponents
    /\ \E t \in CartTexts :
          storage = [cartItems |-> t, orders |-> Absent, customRequests |-> Absent]
    /\ isAdmin = FALSE /\ isAuthenticated = TRUE /\ user \in Users

NextCart(N, calls) ==
    \/ \E n \in N : NavbarMount(n)
    \/ \E n \in N : NavbarUnmount(n)
    \/ \E items \in SeqsUpTo(NewItems, calls) \ {<<>>} : AddToCart(items)
    \/ \E n \in N, id \in ItemIds : RemoveFromCart(n, id)
    \/ \E t \in CartTexts : OtherDocumentWrite(t)
    \/ StorageEvent

\* one Navbar, and callers that call window.addToCart up to MaxCalls times in a task
NextNavbar == NextCart({1}, MaxCalls)
\* several Navbars in the document
NextNavbars == NextCart(NavbarIds, 1)

SpecNavbar == InitCart /\ [][NextNavbar]_vars
SpecNavbars == InitCart /\ [][NextNavbars]_vars

\* AllOrders, one instance or one per tab
InitOrders ==
    /\ InitComponents
    /\ \E t \in OrderTexts :
          storage = [cartItems |-> Absent, orders |-> t, customRequests |-> Absent]
    /\ isAdmin \in BOOLEAN /\ isAuthenticated = isAdmin /\ user \in Users

NextOrders ==
    \/ AllOrdersMount(1)
    \/ AllOrdersUnmount(1)
    \/ \E term \in SearchTerms : handleSearch(1, term)
    \/ \E o \in OrderIds, s \in Statuses : updateOrderStatus(1, o, s)
    \/ clearSearch(1)
    \/ backToDashboard(1)

NextTabs ==
    \/ \E i \in Tabs : AllOrdersMount(i)
    \/ \E i \in Tabs : AllOrdersUnmount(i)
    \/ \E i \in Tabs, o \in OrderIds, s \in Statuses : updateOrderStatus(i, o, s)

SpecOrders == InitOrders /\ [][NextOrders]_vars
SpecTabs == InitOrders /\ [][NextTabs]_vars

\* the gated pages, their mounts and the changes of the AuthContext
InitPages ==
    /\ InitComponents
    /\ \E o \in ProfileOrderTexts, r \in RequestTexts :
          storage = [cartItems |-> Absent, orders |-> o, customRequests |-> r]
    /\ isAdmin \in BOOLEAN /\ isAuthenticated \in BOOLEAN
    /\ user \in Users \cup {NoUser}

NextPages ==
    \/ AllOrdersMount(1)
    \/ AllOrdersUnmount(1)
    \/ UserProfileMount
    \/ UserProfileUnmount
    \/ \E a \in BOOLEAN, au \in BOOLEAN, u \in Users \cup {NoUser} : AuthChange(a, au, u)
    \/ OrdersCorrupted

SpecPages == InitPages /\ [][NextPages]_vars

Spec == SpecNavbars

----------------------------------------------------------------------------
(* Properties *)

\* r is c with exactly the elements that satisfy keep, in the order of c
KeptInOrder(r, c, keep(_)) ==
    \E f \in [1..Len(r) -> 1..Len(c)] :
        /\ \A j, k \in 1..Len(r) : j < k => f[j] < f[k]
        /\ \A k \in 1..Len(r) : r[k] = c[f[k]]
        /\ \A j \in 1..Len(c) : keep(c[j]) <=> (\E k \in 1..Len(r) : f[k] = j)

\* the cart held under the key cartItems
StoredCart == IF storage.cartItems.kind = "json" THEN storage.cartItems.val ELSE <<>>

\* the sum of the quantities of the items of cart whose index is in idx
RECURSIVE QuantityOver(_, _)
QuantityOver(cart, idx) ==
    IF idx = {} THEN 0
    ELSE LET k == CHOOSE j \in idx : TRUE
         IN  cart[k].quantity + QuantityOver(cart, idx \ {k})

\* C1: the delivery of a storage event replaces the cart state of every mounted
\* Navbar by the cart then held under cartItems; so when the last write of the
\* cart is another document's and its storage events have been delivered, the
\* cart state of every mounted Navbar is the stored cart.
C1_StorageEventLoadsStoredCart ==
    /\ [][storageEvents' < storageEvents =>
            \A n \in NavbarIds : navMounted[n] => navCart'[n] = StoredCart']_vars
    /\ [](cartWriter = "other" /\ storageEvents = 0 =>
            \A n \in NavbarIds : navMounted[n] => navCart[n] = StoredCart)

C1_Witness ==
    /\ last.op = "storage"
    /\ cartWriter = "other" /\ storageEvents = 0
    /\ \A n \in NavbarIds : navMounted[n] /\ navCart[n] = StoredCart
    /\ Len(StoredCart) = MaxCart

\* C2: removeFromCart(id) on a Navbar whose cart state is C leaves, in the cart
\* state and under the key cartItems, C without the items whose id is id, the
\* other items unchanged and in their order; the cart is written to storage also
\* when no item has that id.
C2_RemoveFromCartFilters ==
    [][last'.op = "removeFromCart" =>
         LET n == last'.who
             id == last'.id
             Kept(item) == item.id # id
         IN  /\ KeptInOrder(navCart'[n], navCart[n], Kept)
             /\ storage'.cartItems = [kind |-> "json", val |-> navCart'[n]]
             /\ (\A k \in 1..Len(navCart[n]) : navCart[n][k].id # id)
                    => navCart'[n] = navCart[n]]_vars

\* the other Navbar still holds the cart from which two items of that id were removed
C2_Witness ==
    /\ last.op = "removeFromCart"
    /\ storage.cartItems = [kind |-> "json", val |-> navCart[last.who]]
    /\ Len(navCart[last.who]) = 1
    /\ \E m \in NavbarIds \ {last.who} :
          /\ Len(navCart[m]) = 3
          /\ navCart[m][3] = navCart[last.who][1]
          /\ navCart[m][1].id = last.id /\ navCart[m][2].id = last.id

\* the cart after the calls items[1..k] of window.addToCart on the cart c
RECURSIVE AfterCalls(_, _, _)
AfterCalls(items, k, c) ==
    IF k = 0 THEN c ELSE addItemToCart(items[k], AfterCalls(items, k - 1, c))

\* C3: with a single Navbar, window.addToCart is defined exactly while the Navbar
\* is mounted, and the calls made while it is defined are all applied: each
\* replaces the cart state by addItemToCart(item, cart state), a call that follows
\* another back to back working on the result of the one before.
C3_AddToCartAppliesEveryCall ==
    /\ []((addToCartOwner # 0) <=> navMounted[1])
    /\ [][last'.op = "addToCart" =>
            /\ addToCartOwner = 1
            /\ navCart'[1] = AfterCalls(last'.items, Len(last'.items), navCart[1])]_vars

\* two calls for the same item on an empty cart: one item, of quantity 1 + 2
C3_Witness ==
    /\ last.op = "addToCart"
    /\ Len(last.items) = 2
    /\ last.items[1] = [id |-> "towel"]
    /\ last.items[2] = [id |-> "towel", quantity |-> 2]
    /\ navCart[1] = <<[id |-> "towel", quantity |-> 3]>>

\* C10: the cart badge count of a Navbar is the sum of the quantities of the
\* items of its cart state (so it is 0 exactly when that sum is), and
\* removeFromCart(id) lowers it by the total quantity of the items removed.
C10_BadgeIsSumOfQuantities ==
    /\ [](\A n \in NavbarIds :
            /\ navBadge[n] = QuantityOver(navCart[n], 1..Len(navCart[n]))
            /\ (navBadge[n] = 0) <=> (\A k \in 1..Len(navCart[n]) : navCart[n][k].quantity = 0))
    /\ [][last'.op = "removeFromCart" =>
            LET n == last'.who
                removed == {k \in 1..Len(navCart[n]) : navCart[n][k].id = last'.id}
            IN  navBadge'[n] = navBadge[n] - QuantityOver(navCart[n], removed)]_vars

\* an item of quantity 2 was removed from a cart that keeps another
C10_Witness ==
    /\ last.op = "removeFromCart"
    /\ navBadge[last.who] = 1
    /\ \E m \in NavbarIds \ {last.who} :
          /\ navBadge[m] = 3
          /\ \E k \in 1..Len(navCart[m]) :
                navCart[m][k].id = last.id /\ navCart[m][k].quantity = 2

\* the list held under the key orders
StoredOrders == IF storage.orders.kind = "json" THEN storage.orders.val ELSE <<>>

\* every status an update gave an order is the status of that order in storage
NoLostUpdate ==
    \A o \in OrderIds :
        aoApplied[o] # "none" =>
            /\ \E k \in 1..Len(StoredOrders) : StoredOrders[k].id = o
            /\ \A k \in 1..Len(StoredOrders) :
                  StoredOrders[k].id = o => StoredOrders[k].status = aoApplied[o]

\* C4: with two AllOrders instances that loaded the same stored list, an update
\* by one followed by an update of another order by the other can leave the
\* stored list without the first status change (a reachable state); while only one
\* instance has ever been mounted, no update is lost.
C4_SingleInstanceLosesNoUpdate ==
    Cardinality(aoEver) <= 1 => NoLostUpdate

\* instance 2 has just updated an order and written its list; the status that
\* instance 1 gave another order, which instance 1 still shows, is not in storage
C4_Witness ==
    /\ last.op = "updateOrderStatus" /\ last.who = 2
    /\ aoOrders[2] = StoredOrders
    /\ Len(aoOrders[1]) = Len(StoredOrders)
    /\ \E k \in 1..Len(StoredOrders) :
          /\ StoredOrders[k].id # last.id
          /\ aoOrders[1][k].id = StoredOrders[k].id
          /\ aoApplied[StoredOrders[k].id] = aoOrders[1][k].status
          /\ StoredOrders[k].status # aoOrders[1][k].status

\* C9: in a single AllOrders instance, updateOrderStatus(orderId, s) leaves the
\* orders state and the stored list equal, of the length and with the ids, in
\* order, of the list before, the orders whose id is orderId with status s and
\* the others unchanged; and no step changes the sequence of ids held in storage.
C9_UpdateChangesOnlyStatus ==
    /\ [][last'.op = "updateOrderStatus" =>
            LET old == aoOrders[1]
                new == aoOrders'[1]
            IN  /\ old = StoredOrders
                /\ storage'.orders = [kind |-> "json", val |-> new]
                /\ Len(new) = Len(old)
                /\ \A k \in 1..Len(old) :
                      /\ new[k].id = old[k].id
                      /\ old[k].id = last'.id => new[k].status = last'.status
                      /\ old[k].id # last'.id => new[k] = old[k]]_vars
    /\ [][storage.orders.kind = "json" =>
            /\ storage'.orders.kind = "json"
            /\ Len(StoredOrders') = Len(StoredOrders)
            /\ \A k \in 1..Len(StoredOrders) : StoredOrders'[k].id = StoredOrders[k].id]_vars

\* a status was updated while the search hid the other order
C9_Witness ==
    /\ last.op = "updateOrderStatus"
    /\ Len(aoOrders[1]) = 2 /\ Len(aoFiltered[1]) = 1
    /\ aoOrders[1][1].id # aoOrders[1][2].id
    /\ aoFiltered[1][1].status = last.status
    /\ storage.orders = [kind |-> "json", val |-> aoOrders[1]]

----------------------------------------------------------------------------
(* The loads and the redirects of the pages *)

StoredRequests ==
    IF storage.customRequests.kind = "json" THEN storage.customRequests.val ELSE <<>>

Authenticated == isAuthenticated /\ user # NoUser

\* the step runs the load effect of AllOrders, of UserProfile
AllOrdersLoadStep == ~aoMounted[1] /\ aoMounted'[1]

UserProfileLoadStep ==
    \/ ~upMounted /\ upMounted'
    \/ /\ upMounted /\ upMounted' /\ upError = "none"
       /\ (isAuthenticated' # isAuthenticated \/ user' # user)

LoadStep == AllOrdersLoadStep \/ UserProfileLoadStep

C6_AsStated ==
    [][storage.orders.kind \in {"empty", "malformed"} =>
         /\ AllOrdersLoadStep => aoError'[1]
         /\ UserProfileLoadStep /\ Authenticated' => upError' = "orders"]_vars

\* C6, amended: when the text under orders is present, not empty and not valid
\* JSON, the load of AllOrders ends in an error with orders and filteredOrders at
\* their initial empty value, and the load of an authenticated UserProfile ends
\* in an error on orders, its orders and its custom requests keeping the value
\* they had (the initial empty one when the page has just mounted); storage is
\* unchanged.  The empty text is treated as an absent key: no error, empty lists.
C6_MalformedOrdersRaise ==
    [][/\ storage.orders.kind = "malformed" =>
            /\ AllOrdersLoadStep =>
                 /\ aoError'[1] /\ aoOrders'[1] = <<>> /\ aoFiltered'[1] = <<>>
                 /\ storage' = storage
            /\ UserProfileLoadStep /\ Authenticated' =>
                 /\ upError' = "orders"
                 /\ upOrders' = upOrders /\ upRequests' = upRequests
                 /\ ~upMounted => upOrders' = <<>> /\ upRequests' = <<>>
                 /\ storage' = storage
       /\ storage.orders.kind = "empty" =>
            /\ AllOrdersLoadStep =>
                 ~aoError'[1] /\ aoOrders'[1] = <<>> /\ aoFiltered'[1] = <<>>
            /\ UserProfileLoadStep /\ Authenticated' =>
                 upError' # "orders" /\ upOrders' = <<>>]_vars

\* the load of an authenticated UserProfile threw on orders; the stored custom
\* requests of the user were not loaded
C6_Witness ==
    /\ last.op = "UserProfileMount"
    /\ Authenticated
    /\ storage.orders.kind = "malformed"
    /\ upError = "orders"
    /\ \E k \in 1..Len(StoredRequests) : StoredRequests[k].userId = user.id
    /\ upRequests = <<>>

\* C7: for an authenticated user u, the custom requests UserProfile holds after
\* its load are the stored entries whose userId is u.id, in stored order: none
\* of another userId.
C7_RequestsOfTheUserOnly ==
    upMounted /\ Authenticated /\ upError = "none" =>
        LET Own(request) == request.userId = user.id
        IN  KeptInOrder(upRequests, StoredRequests, Own)

\* the stored list holds a request of another user before one of the user
C7_Witness ==
    /\ upMounted /\ Authenticated /\ upError = "none"
    /\ Len(StoredRequests) = 2
    /\ StoredRequests[1].userId # user.id
    /\ upRequests = <<StoredRequests[2]>>

\* C8: AllOrders calls navigate('/login') when it mounts and when isAdmin
\* changes, if isAdmin is then false; UserProfile does when it mounts and when
\* isAuthenticated changes, if isAuthenticated is then false, and it renders
\* nothing exactly while isAuthenticated is false.  No other step of the pages
\* calls navigate('/login').
C8_RedirectsToLogin ==
    /\ [][LET allOrdersEffect ==
                  \/ ~aoMounted[1] /\ aoMounted'[1]
                  \/ aoMounted[1] /\ aoMounted'[1] /\ ~aoError[1] /\ isAdmin' # isAdmin
              userProfileEffect ==
                  \/ ~upMounted /\ upMounted'
                  \/ /\ upMounted /\ upMounted' /\ upError = "none"
                     /\ isAuthenticated' # isAuthenticated
          IN  navCalls' =
                IF allOrdersEffect /\ ~isAdmin' THEN <<"/login">>
                ELSE IF userProfileEffect /\ ~isAuthenticated' THEN <<"/login">>
                ELSE <<>>]_vars
    /\ [](upMounted /\ upError = "none" =>
            ((upRendered = "null") <=> ~isAuthenticated))

\* a mounted AllOrders has just redirected because isAdmin became false
C8_Witness ==
    /\ last.op = "authChange"
    /\ aoMounted[1] /\ ~aoError[1]
    /\ ~isAdmin
    /\ navCalls = <<"/login">>

----------------------------------------------------------------------------
(* The search of AllOrders *)

\* the characters a and b are the same letter, whatever their case
SameLetter(a, b) == a = b \/ {a, b} = {"A", "a"} \/ {a, b} = {"B", "b"}

\* the text id contains the text term, case ignored
ContainsIgnoringCase(id, term) ==
    \E k \in 0..(Len(id) - Len(term)) :
        \A j \in 1..Len(term) : SameLetter(id[k + j], term[j])

OnlyWhitespace(term) == \A k \in 1..Len(term) : term[k] = " "

\* C11: after the load and any handleSearch, updateOrderStatus and Clear search,
\* filteredOrders is the list of the orders, in order and with their current
\* statuses, whose id contains searchTerm case-insensitively; it is the whole
\* orders list when searchTerm is empty or only whitespace.
C11_FilteredMatchesSearch ==
    aoMounted[1] /\ ~aoError[1] =>
        IF OnlyWhitespace(aoSearch[1])
        THEN aoFiltered[1] = aoOrders[1]
        ELSE LET Matches(order) == ContainsIgnoringCase(order.id, aoSearch[1])
             IN  KeptInOrder(aoFiltered[1], aoOrders[1], Matches)

\* a status was updated under the search term a, which matches the id Ab only
C11_Witness ==
    /\ last.op = "updateOrderStatus"
    /\ aoSearch[1] = <<"a">>
    /\ Len(aoOrders[1]) = 2
    /\ aoOrders[1][1].id = <<"b">>
    /\ aoFiltered[1] = <<aoOrders[1][2]>>
    /\ aoFiltered[1][1].status = last.status
    /\ aoFiltered[1][1].status \notin StoredStatuses

----------------------------------------------------------------------------
(* Several Navbars *)

\* C12: with several Navbars mounted and unmounted in any order,
\* window.addToCart is defined whenever at least one Navbar is mounted, and it
\* updates the cart state of a Navbar that is still mounted.
C12_AddToCartWhileAnyMounted ==
    (\E n \in NavbarIds : navMounted[n]) =>
        addToCartOwner # 0 /\ navMounted[addToCartOwner]

\* the part of C12 the cleanup keeps: while window.addToCart is defined, the
\* Navbar whose cart state it updates is mounted
C12_OwnerIsMounted ==
    addToCartOwner # 0 => navMounted[addToCartOwner]

----------------------------------------------------------------------------
(* What the gated pages hold *)

\* C13: AllOrders holds no stored order in orders or filteredOrders while
\* isAdmin is false, and UserProfile holds no stored order or custom request
\* unless isAuthenticated is true and a user is present.
C13_DataOnlyUnderAccess ==
    /\ aoMounted[1] /\ ~isAdmin => aoOrders[1] = <<>> /\ aoFiltered[1] = <<>>
    /\ upMounted /\ ~Authenticated => upOrders = <<>> /\ upRequests = <<>>

\* the part of C13 the load effect of UserProfile keeps: a step that changes its
\* orders or its custom requests ends with isAuthenticated true and a user present
C13_ProfileReadsOnlyUnderAccess ==
    [][upMounted' /\ (upOrders' # upOrders \/ upRequests' # upRequests) =>
         Authenticated']_vars

====
